---- MODULE Spec2Model ----
(***************************************************************************)
(* Contig scaffolding evidence: the mate-pair link aggregator and edge     *)
(* emission of assembly/bundle.py (bed), and the Hi-C tour fitness and     *)
(* contact binner of assembly/hic.py (score_evaluate, make_bins).          *)
(*                                                                         *)
(* Strings that the code slices or compares (read names, sequence ids) are *)
(* sequences of one-character strings; Ord gives each character its ASCII  *)
(* code, so that Python's str comparison is the lexicographic order below. *)
(***************************************************************************)
EXTENDS Integers, Sequences, FiniteSets, TLC

VARIABLES
    sizes,        \* bundle.py: Sizes(fastafile), contig id -> length
    links,        \* bundle.py: opts.links
    cutoff,       \* bundle.py: opts.cutoff
    prefix,       \* bundle.py: opts.prefix
    p1,           \* bundle.py: percentile returned by pairs()
    p2,           \* bundle.py: percentile returned by pairs()
    bedfile,      \* bundle.py: the pairs of lines of the bed file, when fixed
    fp,           \* bundle.py: open(bedfile), the number of pairs read from it
    contigGraph,  \* bundle.py: defaultdict(list), (seqid, seqid) -> votes
    last,         \* bundle.py: locals of the latest loop iteration
    pc,           \* bundle.py: position of bed(): loop, emit, done, aborted
    ei,           \* bundle.py: number of sorted buckets the second loop has visited
    out,          \* bundle.py: the records printed by the second loop
    g,            \* bundle.py: nx.Graph, edge {a, b} -> orientation
    tour,         \* hic.py: score_evaluate's tour, contig indices from 0
    tour_sizes,   \* hic.py: score_evaluate's tour_sizes, index -> length
    tour_M,       \* hic.py: score_evaluate's tour_M, <<index, index>> -> contacts
    fitness,      \* hic.py: the score score_evaluate returned, a fraction
    tours,        \* hic.py: make_bins' tours, the groups of contig names
    mapping,      \* hic.py: sizes.mapping, contig name -> length
    start,        \* hic.py: make_bins' running offset
    bins,         \* hic.py: make_bins' bins, contig id -> (start, end)
    breaks,       \* hic.py: make_bins' breaks
    ti,           \* hic.py: the group the outer loop of make_bins is in, from 1
    xi,           \* hic.py: the number of contigs of that group already binned
    result        \* hic.py: the tuple make_bins returned, <<>> before it has

bedvars == <<sizes, links, cutoff, prefix, p1, p2, bedfile, fp, contigGraph, last, pc,
             ei, out, g>>

scorevars == <<tour, tour_sizes, tour_M, fitness>>

binvars == <<tours, mapping, start, bins, breaks, ti, xi, result>>

vars == <<bedvars, scorevars, binvars>>

----------------------------------------------------------------------------
(* Bounds of the model *)

\* the loop stops reading once the vote table holds this many entries
\* (votes, and buckets without a vote)
MaxEntries == 2

\* the longest tour score_evaluate is given
MaxTour == 3

\* the most groups make_bins is given
MaxGroups == 2

\* the most contigs the groups of make_bins hold together
MaxBinned == 3

----------------------------------------------------------------------------
(* The components at rest: each specification runs one of them *)

\* score_evaluate has returned nothing yet
NoFitness == <<>>

ScoreIdle ==
    /\ tour = <<>>
    /\ tour_sizes = <<>>
    /\ tour_M = <<>>
    /\ fitness = NoFitness

\* make_bins has not returned
NoResult == <<>>

\* line 202: bins = {}
NoBins == [c \in {} |-> <<>>]

\* lines 200-202: make_bins before its loops
BinsStart ==
    /\ start = 0
    /\ bins = NoBins
    /\ breaks = <<>>
    /\ ti = 1
    /\ xi = 0
    /\ result = NoResult

BinsIdle ==
    /\ tours = <<>>
    /\ mapping = <<>>
    /\ BinsStart

----------------------------------------------------------------------------
(* Strings *)

Ord(c) ==
    CASE c = "+" -> 43
      [] c = "-" -> 45
      [] c = "1" -> 49
      [] c = "2" -> 50
      [] c = "A" -> 65
      [] c = "B" -> 66
      [] c = "_" -> 95
      [] c = "p" -> 112
      [] c = "q" -> 113

\* Python str comparison s < t
StrLess(s, t) ==
    \E i \in 1..Len(t) :
        /\ \A j \in 1..(i - 1) : j <= Len(s) /\ s[j] = t[j]
        /\ (i > Len(s) \/ Ord(s[i]) < Ord(t[i]))

\* Python str comparison s > t
StrGreater(s, t) == StrLess(t, s)

\* s.rstrip('-')
RECURSIVE rstrip(_)
rstrip(s) ==
    IF s # <<>> /\ s[Len(s)] = "-"
    THEN rstrip(SubSeq(s, 1, Len(s) - 1))
    ELSE s

\* s.split("_")[0]
RECURSIVE split0(_)
split0(s) ==
    IF s = <<>> \/ Head(s) = "_"
    THEN <<>>
    ELSE <<Head(s)>> \o split0(Tail(s))

\* s[-1]
lastchar(s) == s[Len(s)]

----------------------------------------------------------------------------
(* Bed records *)

\* rs = lambda x: x.accn[:-1]
rs(x) == SubSeq(x.accn, 1, Len(x.accn) - 1)

\* BedLine.reverse_complement(sizes): the record seen from the other strand of
\* its contig; the id carries the reverse marker '-' that lines 112 and
\* 165-172 of bundle.py strip and read
reverse_complement(x) ==
    LET size == sizes[rstrip(x.seqid)] IN
    [x EXCEPT !.seqid = IF lastchar(x.seqid) = "-"
                        THEN SubSeq(x.seqid, 1, Len(x.seqid) - 1)
                        ELSE Append(x.seqid, "-"),
              !.start = size - x.end + 1,
              !.end = size - x.start + 1,
              !.strand = IF x.strand = "+" THEN "-" ELSE "+"]

\* maxcutoff = cutoff or p2
maxcutoff == IF cutoff # 0 THEN cutoff ELSE p2

\* lines 98-102: equal strands, flip b on "++" and a on "--"
FlipEqual(a, b) ==
    IF a.strand = b.strand
    THEN IF b.strand = "+"
         THEN <<a, reverse_complement(b)>>
         ELSE <<reverse_complement(a), b>>
    ELSE <<a, b>>

\* lines 104-105 with the test on the wrong strand
SwapPlusFirst_Minus(p) == IF p[2].strand = "-" THEN <<p[2], p[1]>> ELSE p

\* lines 104-105: the "+" record goes first
SwapPlusFirst(p) == IF p[2].strand = "+" THEN <<p[2], p[1]>> ELSE p

\* lines 98-105
Normalize(a, b) == SwapPlusFirst(FlipEqual(a, b))

\* lines 112-124: hangs = ahang + bhang
Hangs(a, b) ==
    LET aseqid == rstrip(a.seqid)
        size == sizes[aseqid]
        ahang == size - a.start + 1
        bhang == b.end
    IN  ahang + bhang

\* line 126 with >= for >
OverCutoff_Inclusive(hangs) == hangs >= maxcutoff

\* line 126: the cutoff filter rejects the pair
OverCutoff(hangs) == hangs > maxcutoff

\* lines 132-135 without the two reverse complements
Canonical_SwapOnly(a, b) ==
    IF StrGreater(a.seqid, b.seqid) THEN <<b, a>> ELSE <<a, b>>

\* lines 132-135: only do the canonical one
Canonical(a, b) ==
    IF StrGreater(a.seqid, b.seqid)
    THEN <<reverse_complement(b), reverse_complement(a)>>
    ELSE <<a, b>>

\* contigGraph[key] of a defaultdict(list): the lookup creates the bucket
Lookup(cg, key) ==
    [k \in DOMAIN cg \cup {key} |-> IF k \in DOMAIN cg THEN cg[k] ELSE <<>>]

\* line 142 as "hangs in contigGraph[key]": a number is no (pair id, hangs) vote
Redundant_WholeVote(mates, hangs) == \E i \in 1..Len(mates) : mates[i] = <<hangs>>

\* line 142: hangs in [x[1] for x in contigGraph[key]]
Redundant(mates, hangs) == \E i \in 1..Len(mates) : mates[i][2] = hangs

\* lines 145-149: the prefix filter rejects the pair
PrefixMismatch(a, b) == prefix /\ split0(a.seqid) # split0(b.seqid)

NoKey == <<>>

\* lines 83-151: one iteration of the first loop on the records a0, b0;
\* the result holds the loop's locals (the strands as read and as normalized,
\* hangs, the key) and the vote table it leaves
LoopBody(a0, b0) ==
    IF rs(a0) # rs(b0)
    THEN [outcome |-> "mate_mismatch", raw |-> <<>>, strands |-> <<>>, hangs |-> 0,
          key |-> NoKey, ids |-> <<>>, cg |-> contigGraph]
    ELSE IF a0.seqid = b0.seqid
    THEN [outcome |-> "same_seqid", raw |-> <<>>, strands |-> <<>>, hangs |-> 0,
          key |-> NoKey, ids |-> <<>>, cg |-> contigGraph]
    ELSE
    LET n == Normalize(a0, b0)
        raw == <<a0.strand, b0.strand>>
        ids == <<a0.seqid, b0.seqid>>
        st == <<n[1].strand, n[2].strand>>
    IN
    IF ~(n[1].strand = "+" /\ n[2].strand = "-")
    THEN [outcome |-> "assert", raw |-> raw, strands |-> st, hangs |-> 0,
          key |-> NoKey, ids |-> ids, cg |-> contigGraph]
    ELSE
    LET hangs == Hangs(n[1], n[2]) IN
    IF OverCutoff(hangs)
    THEN [outcome |-> "cutoff", raw |-> raw, strands |-> st, hangs |-> hangs,
          key |-> NoKey, ids |-> ids, cg |-> contigGraph]
    ELSE
    LET c == Canonical(n[1], n[2])
        key == <<c[1].seqid, c[2].seqid>>
        cg1 == Lookup(contigGraph, key)
    IN
    IF Redundant(cg1[key], hangs)
    THEN [outcome |-> "redundant", raw |-> raw, strands |-> st, hangs |-> hangs,
          key |-> key, ids |-> ids, cg |-> cg1]
    ELSE IF PrefixMismatch(c[1], c[2])
    THEN [outcome |-> "prefix", raw |-> raw, strands |-> st, hangs |-> hangs,
          key |-> key, ids |-> ids, cg |-> cg1]
    ELSE [outcome |-> "recorded", raw |-> raw, strands |-> st, hangs |-> hangs,
          key |-> key, ids |-> ids,
          cg |-> [cg1 EXCEPT ![key] = Append(@, <<rs(a0), hangs>>)]]

----------------------------------------------------------------------------
(* Inputs of the link aggregator *)

Strands == {"+", "-"}

\* read names: pair id and mate suffix
NameA == <<"p", "1">>
NamesB == {<<"p", "2">>, <<"q", "2">>}

Contigs == DOMAIN sizes

\* the bed lines on the contigs of the size table
BedLines(names) ==
    UNION {
        { [accn |-> nm, seqid |-> c, start |-> s, end |-> e, strand |-> d] :
            nm \in names, d \in Strands,
            s \in 1..sizes[c], e \in 1..sizes[c] }
        : c \in Contigs }

ValidLine(x) == x.start <= x.end

\* size tables: three contigs whose ids compare in every way (one id a prefix
\* of another, followed by a character below or above '-'), and two contigs
\* long enough for several hang sums
IdSizes == [c \in {<<"A">>, <<"A", "+">>, <<"A", "_">>} |-> 1]
HangSizes == (<<"A">> :> 1) @@ (<<"B">> :> 2)

NoLast == [outcome |-> "none", raw |-> <<>>, strands |-> <<>>, hangs |-> 0,
           key |-> NoKey, ids |-> <<>>]

EmptyGraph == [k \in {} |-> <<>>]

InitBedState ==
    /\ fp = 0
    /\ contigGraph = EmptyGraph
    /\ last = NoLast
    /\ pc = "loop"
    /\ ei = 0
    /\ out = <<>>
    /\ g = [e \in {} |-> "+"]

InitBed ==
    /\ ScoreIdle
    /\ BinsIdle
    /\ sizes \in {IdSizes, HangSizes}
    /\ links \in {1, 2}
    /\ cutoff \in {0, 2}
    /\ prefix \in BOOLEAN
    /\ p1 \in {1, 3}
    /\ p2 = 3
    /\ bedfile = <<>>
    /\ InitBedState

----------------------------------------------------------------------------
(* The two-contig scenario: a bed file of four mate pairs *)

ScenarioContigs == {<<"A">>, <<"B">>}

\* reads of 100 bases near either end of a contig of 1000
ScenarioStarts == {1, 101, 801, 901}

\* the k-th pair of the file is named by the k-th letter
PairName(k) == <<<<"p">>, <<"q">>, <<"r">>, <<"s">>>>[k]

ScenarioLine(k, mate, c, s, d) ==
    [accn |-> PairName(k) \o <<mate>>, seqid |-> c, start |-> s, end |-> s + 99,
     strand |-> d]

\* the mate pairs between A and B, in either mate direction
ScenarioPairs(k) ==
    { <<ScenarioLine(k, "1", ca, sa, da), ScenarioLine(k, "2", cb, sb, db)>> :
        ca \in ScenarioContigs, cb \in ScenarioContigs,
        sa \in ScenarioStarts, sb \in ScenarioStarts,
        da \in Strands, db \in Strands }

\* the hang_sum the loop computes for a pair of lines
HangSum(pr) == LET n == Normalize(pr[1], pr[2]) IN Hangs(n[1], n[2])

\* strands "++" or "--", between A and B, hang_sum under the cutoff
GoodPairs(k) ==
    { pr \in ScenarioPairs(k) :
        /\ pr[1].seqid # pr[2].seqid
        /\ pr[1].strand = pr[2].strand
        /\ HangSum(pr) <= maxcutoff }

\* a pair between A and B whose reads lie at the start of both contigs and
\* whose hang_sum exceeds the cutoff
BadPairs(k) ==
    { pr \in ScenarioPairs(k) :
        /\ pr[1].seqid = <<"A">> /\ pr[2].seqid = <<"B">>
        /\ pr[1].start = 1 /\ pr[2].start = 1
        /\ HangSum(pr) > maxcutoff }

\* s with x put at index i
InsertAt(s, i, x) == SubSeq(s, 1, i - 1) \o <<x>> \o SubSeq(s, i, Len(s))

\* the files of the scenario: three good pairs with distinct hang sums and one
\* bad pair, the bad one anywhere in the file
ScenarioFiles ==
    LET bads == BadPairs(4)
        goods == { gd \in GoodPairs(1) \X GoodPairs(2) \X GoodPairs(3) :
                    /\ HangSum(gd[1]) # HangSum(gd[2])
                    /\ HangSum(gd[1]) # HangSum(gd[3])
                    /\ HangSum(gd[2]) # HangSum(gd[3]) }
    IN  UNION { UNION {
            { InsertAt(<<good[1], good[2], good[3]>>, i, bad) : bad \in bads }
            : good \in goods }
            : i \in 1..4 }

InitScenario ==
    /\ ScoreIdle
    /\ BinsIdle
    /\ sizes = [c \in ScenarioContigs |-> 1000]
    /\ links = 2
    /\ cutoff = 0
    /\ prefix = FALSE
    /\ p1 = 100
    /\ p2 = 500
    /\ bedfile \in ScenarioFiles
    /\ InitBedState

----------------------------------------------------------------------------
(* The loops of bed() *)

\* the number of entries of the table: its votes, a bucket without a vote
\* counting as one
RECURSIVE TableLoad(_)
TableLoad(cg) ==
    IF DOMAIN cg = {} THEN 0
    ELSE LET k == CHOOSE k \in DOMAIN cg : TRUE IN
         (IF cg[k] = <<>> THEN 1 ELSE Len(cg[k]))
         + TableLoad([j \in DOMAIN cg \ {k} |-> cg[j]])

\* lines 76-151: the loop body on one pair of lines
BedLoop(a0, b0) ==
    LET r == LoopBody(a0, b0) IN
    /\ contigGraph' = r.cg
    /\ last' = [outcome |-> r.outcome, raw |-> r.raw, strands |-> r.strands,
                hangs |-> r.hangs, key |-> r.key, ids |-> r.ids]
    /\ pc' = IF r.outcome = "assert" THEN "aborted" ELSE "loop"

\* the loop reads the next two lines of a file the model does not fix
ReadPair ==
    /\ pc = "loop"
    /\ bedfile = <<>>
    /\ TableLoad(contigGraph) < MaxEntries
    /\ \E a0 \in BedLines({NameA}), b0 \in BedLines(NamesB) :
        /\ ValidLine(a0) /\ ValidLine(b0)
        /\ BedLoop(a0, b0)
    /\ UNCHANGED <<sizes, links, cutoff, prefix, p1, p2, bedfile, fp, ei, out, g,
                   scorevars, binvars>>

\* the loop reads the next two lines of the bed file
ReadFile ==
    /\ pc = "loop"
    /\ fp < Len(bedfile)
    /\ BedLoop(bedfile[fp + 1][1], bedfile[fp + 1][2])
    /\ fp' = fp + 1
    /\ UNCHANGED <<sizes, links, cutoff, prefix, p1, p2, bedfile, ei, out, g, scorevars, binvars>>

\* line 153: the file is exhausted, the first loop ends
EndOfFile ==
    /\ pc = "loop"
    /\ fp = Len(bedfile)
    /\ pc' = "emit"
    /\ UNCHANGED <<sizes, links, cutoff, prefix, p1, p2, bedfile, fp, contigGraph, last,
                   ei, out, g, scorevars, binvars>>

----------------------------------------------------------------------------
(* Gap estimation and edge emission *)

\* tuple comparison of two keys, as sorted() compares them
KeyLess(j, k) == StrLess(j[1], k[1]) \/ (j[1] = k[1] /\ StrLess(j[2], k[2]))

\* line 155: the i-th key of sorted(contigGraph.items())
SortedKey(cg, i) ==
    CHOOSE k \in DOMAIN cg : Cardinality({j \in DOMAIN cg : KeyLess(j, k)}) = i - 1

Max(x, y) == IF x >= y THEN x ELSE y
Min(x, y) == IF x <= y THEN x ELSE y

\* lines 158-162 without the max(..., 0) of line 160
Gaps_Unclamped(mates) ==
    [i \in 1..Len(mates) |-> <<p1 - mates[i][2], p2 - mates[i][2]>>]

\* lines 158-162: the gap interval of every vote
Gaps(mates) ==
    [i \in 1..Len(mates) |->
        LET hang == mates[i][2]
            gmin == Max(p1 - hang, 0)
            gmax == p2 - hang
        IN  <<gmin, gmax>>]

\* lines 165-170 without the test lastdigits != '--' of line 167
Orientation_AnyMarker(aseqid, bseqid) ==
    IF lastchar(aseqid) = "-" \/ lastchar(bseqid) = "-" THEN "-" ELSE "+"

\* lines 165-170: the orientation symbol of a pair of ids
Orientation(aseqid, bseqid) ==
    LET lastdigits == <<lastchar(aseqid), lastchar(bseqid)>> IN
    IF (\E i \in 1..2 : lastdigits[i] = "-") /\ lastdigits # <<"-", "-">>
    THEN "-"
    ELSE "+"

\* jcvi.utils.range.ranges_intersect: the intersection of the intervals, or
\* the marker of an empty intersection
RECURSIVE ranges_intersect(_)
ranges_intersect(rset) ==
    IF rset = <<>> THEN "None"
    ELSE IF Len(rset) = 1 THEN rset[1]
    ELSE LET a == ranges_intersect(SubSeq(rset, 1, Len(rset) - 1))
             b == rset[Len(rset)]
         IN  IF a = "None" THEN "None"
             ELSE IF Max(a[1], b[1]) <= Min(a[2], b[2])
             THEN <<Max(a[1], b[1]), Min(a[2], b[2])>>
             ELSE "None"

\* line 156 with <= for <
TooFew_Inclusive(mates) == Len(mates) <= links

\* line 156: the bucket has too few mates for an edge
TooFew(mates) == Len(mates) < links

\* g.add_edge(a, b, orientation=o) on an undirected graph
AddEdge(gr, a, b, o) ==
    [e \in DOMAIN gr \cup {{a, b}} |-> IF e = {a, b} THEN o ELSE gr[e]]

\* lines 155-177: one iteration of the second loop
Emit ==
    /\ pc = "emit"
    /\ ei < Cardinality(DOMAIN contigGraph)
    /\ LET pair == SortedKey(contigGraph, ei + 1)
           mates == contigGraph[pair]
       IN
       IF TooFew(mates)
       THEN UNCHANGED <<out, g>>
       ELSE LET gaps == Gaps(mates)
                orientation == Orientation(pair[1], pair[2])
                aseqid == rstrip(pair[1])
                bseqid == rstrip(pair[2])
                gapsize == ranges_intersect(gaps)
            IN  /\ g' = AddEdge(g, aseqid, bseqid, orientation)
                /\ out' = Append(out, [pair |-> pair, mates |-> mates,
                                       orientation |-> orientation,
                                       gap |-> gapsize])
    /\ ei' = ei + 1
    /\ UNCHANGED <<sizes, links, cutoff, prefix, p1, p2, bedfile, fp, contigGraph, last,
                   pc, scorevars, binvars>>

\* line 179: the second loop is over, the graph goes to the component solver
Finish ==
    /\ pc = "emit"
    /\ ei = Cardinality(DOMAIN contigGraph)
    /\ pc' = "done"
    /\ UNCHANGED <<sizes, links, cutoff, prefix, p1, p2, bedfile, fp, contigGraph, last,
                   ei, out, g, scorevars, binvars>>

----------------------------------------------------------------------------
(* Fractions: the values of the floating-point score, kept exact *)

RECURSIVE GCD(_, _)
GCD(a, b) == IF b = 0 THEN a ELSE GCD(b, a % b)

\* the fraction n/d in lowest terms, d > 0
Frac(n, d) ==
    LET k == GCD(IF n < 0 THEN -n ELSE n, d) IN <<n \div k, d \div k>>

FracAdd(x, y) == Frac(x[1] * y[2] + y[1] * x[2], x[2] * y[2])

Zero == <<0, 1>>

----------------------------------------------------------------------------
(* Tour fitness *)

\* the sizes read by position, not by the tour's contig
SizesOo_ByPosition(t, ts) == [k \in 1..Len(t) |-> ts[k - 1]]

\* sizes_oo = [tour_sizes[x] for x in tour]
SizesOo(t, ts) == [k \in 1..Len(t) |-> ts[t[k]]]

\* a running sum that leaves out the element at each position
RECURSIVE cumsum_Exclusive(_)
cumsum_Exclusive(s) ==
    IF s = <<>> THEN <<>>
    ELSE LET c == cumsum_Exclusive(SubSeq(s, 1, Len(s) - 1)) IN
         Append(c, IF c = <<>> THEN 0 ELSE c[Len(c)] + s[Len(s) - 1])

\* np.cumsum(sizes_oo)
RECURSIVE cumsum(_)
cumsum(s) ==
    IF s = <<>> THEN <<>>
    ELSE LET c == cumsum(SubSeq(s, 1, Len(s) - 1)) IN
         Append(c, (IF c = <<>> THEN 0 ELSE c[Len(c)]) + s[Len(s)])

\* sizes_cum[ib] - sizes_cum[0]: the separation measured from the first contig
Separation_FromFirst(cum, ia, ib) == cum[ib] - cum[1]

\* sizes_cum[ib] - sizes_cum[ia], positions counted from 1
Separation(cum, ia, ib) == cum[ib] - cum[ia]

\* lines 162-165: the inner loop from position ib on, s the sum so far
RECURSIVE InnerLoop(_, _, _, _, _, _)
InnerLoop(t, cum, tm, ia, ib, s) ==
    IF ib > Len(t) THEN s
    ELSE LET a == t[ia]
             b == t[ib]
             lnk == tm[<<a, b>>]
         IN  InnerLoop(t, cum, tm, ia, ib + 1,
                       FracAdd(s, Frac(lnk, Separation(cum, ia, ib))))

\* lines 160-165: the outer loop from position ia on
RECURSIVE OuterLoop(_, _, _, _, _)
OuterLoop(t, cum, tm, ia, s) ==
    IF ia > Len(t) THEN s
    ELSE OuterLoop(t, cum, tm, ia + 1, InnerLoop(t, cum, tm, ia, ia + 1, s))

\* lines 155-166
score_evaluate(t, ts, tm) ==
    LET sizes_oo == SizesOo(t, ts)
        sizes_cum == cumsum(sizes_oo)
    IN  OuterLoop(t, sizes_cum, tm, 1, Zero)

----------------------------------------------------------------------------
(* Inputs of the tour fitness *)

\* the permutations of 0..n-1
Tours(n) ==
    { t \in [1..n -> 0..(n - 1)] : \A i \in 1..n, j \in 1..n : t[i] = t[j] => i = j }

SizeValues == {1, 2}

\* contact matrices on n contigs: any 0/1 upper triangle, a lower triangle
\* that is zero, the mirror of the upper one, or the mirror of its complement
Matrices(n) ==
    LET idx == 0..(n - 1)
        upper == {p \in idx \X idx : p[1] < p[2]}
    IN  UNION {
            { [p \in idx \X idx |->
                IF p[1] < p[2] THEN u[p]
                ELSE IF p[1] = p[2] THEN 0
                ELSE IF mode = "upper" THEN 0
                ELSE IF mode = "symmetric" THEN u[<<p[2], p[1]>>]
                ELSE 1 - u[<<p[2], p[1]>>]]
              : mode \in {"upper", "symmetric", "skew"} }
            : u \in [upper -> {0, 1}] }

\* the three contigs of sizes 100, 200, 150 and their contacts 10, 5, 20
ExampleSizes == [i \in 0..2 |-> <<100, 200, 150>>[i + 1]]
ExampleM ==
    [p \in (0..2) \X (0..2) |->
        IF p = <<0, 1>> THEN 10
        ELSE IF p = <<0, 2>> THEN 5
        ELSE IF p = <<1, 2>> THEN 20
        ELSE 0]

BedIdle ==
    /\ sizes = <<>>
    /\ links = 2
    /\ cutoff = 0
    /\ prefix = FALSE
    /\ p1 = 0
    /\ p2 = 0
    /\ bedfile = <<>>
    /\ InitBedState

InitScore ==
    /\ BedIdle
    /\ BinsIdle
    /\ \/ \E n \in 1..MaxTour :
            /\ tour \in Tours(n)
            /\ tour_sizes \in [0..(n - 1) -> SizeValues]
            /\ tour_M \in Matrices(n)
       \/ /\ tour \in Tours(3)
          /\ tour_sizes = ExampleSizes
          /\ tour_M = ExampleM
    /\ fitness = NoFitness

\* the optimizer calls the evaluator on the tour
Evaluate ==
    /\ tour # <<>>
    /\ fitness = NoFitness
    /\ fitness' = score_evaluate(tour, tour_sizes, tour_M)
    /\ UNCHANGED <<bedvars, binvars, tour, tour_sizes, tour_M>>

NextScore == Evaluate

----------------------------------------------------------------------------
(* Contact binner *)

\* the bin resolution of line 207
Resolution == 100000

\* the quotient rounded down, as an integer division would give it
CeilBins_Floor(size) == size \div Resolution

\* int(math.ceil(size / 100000.))
CeilBins(size) ==
    IF size % Resolution = 0 THEN size \div Resolution ELSE size \div Resolution + 1

\* contig_ids: the contig names numbered in the order of the size file
ContigIds == [c \in {"x", "y"} |-> IF c = "x" THEN "0" ELSE "1"]

\* bins[contig_id] = (start, end)
SetBin(b, id, iv) == [c \in DOMAIN b \cup {id} |-> IF c = id THEN iv ELSE b[c]]

\* lines 204-209: one contig of the group
BinContig ==
    /\ result = NoResult
    /\ ti <= Len(tours)
    /\ xi < Len(tours[ti])
    /\ LET x == tours[ti][xi + 1]
           size == mapping[x]
           contig_id == ContigIds[x]
           end == start + CeilBins(size)
       IN  /\ bins' = SetBin(bins, contig_id, <<start, end>>)
           /\ start' = end
    /\ xi' = xi + 1
    /\ UNCHANGED <<bedvars, scorevars, tours, mapping, breaks, ti, result>>

\* line 210: the group is done
EndTour ==
    /\ result = NoResult
    /\ ti <= Len(tours)
    /\ xi = Len(tours[ti])
    /\ breaks' = Append(breaks, start)
    /\ ti' = ti + 1
    /\ xi' = 0
    /\ UNCHANGED <<bedvars, scorevars, tours, mapping, start, bins, result>>

\* lines 212-213
ReturnBins ==
    /\ result = NoResult
    /\ ti > Len(tours)
    /\ LET totalbins == start
       IN  result' = <<totalbins, bins, breaks>>
    /\ UNCHANGED <<bedvars, scorevars, tours, mapping, start, bins, breaks, ti, xi>>

NextBins == BinContig \/ EndTour \/ ReturnBins

----------------------------------------------------------------------------
(* Inputs of the contact binner *)

BinSizeValues == {1, 100000, 100001, 250000}

\* the groups of at most n contigs
Groups(n) == UNION { [1..k -> {"x", "y"}] : k \in 0..n }

RECURSIVE Binned(_)
Binned(ts) == IF ts = <<>> THEN 0 ELSE Len(Head(ts)) + Binned(Tail(ts))

\* up to MaxGroups groups holding at most MaxBinned contigs together
TourLists ==
    UNION { { ts \in [1..k -> Groups(MaxBinned)] : Binned(ts) <= MaxBinned }
            : k \in 0..MaxGroups }

InitBins ==
    /\ BedIdle
    /\ ScoreIdle
    /\ tours \in TourLists
    /\ mapping \in [{"x", "y"} -> BinSizeValues]
    /\ BinsStart

----------------------------------------------------------------------------
(* Properties of the link aggregator *)

\* the loop's locals are past strand normalization (lines 98-105)
Normalized == last.strands # <<>>

\* C1: in the link aggregator, for a mate pair whose two strands are each '+'
\* or '-', after strand normalization the first record has strand '+' and the
\* second '-', and the assertion that ends normalization does not fail.
C1_NormalizedStrands ==
    /\ pc # "aborted"
    /\ Normalized =>
        /\ last.raw \in Strands \X Strands
        /\ last.strands = <<"+", "-">>
        /\ last.outcome # "assert"

\* a pair read with strands "--" has gone through normalization
C1_Witness ==
    /\ Normalized
    /\ last.raw = <<"-", "-">>
    /\ last.strands = <<"+", "-">>
    /\ last.outcome = "recorded"

\* lines 83-135: the key under which the loop files the pair (a, b)
KeyOf(a, b) ==
    LET n == Normalize(a, b)
        c == Canonical(n[1], n[2])
    IN  <<c[1].seqid, c[2].seqid>>

\* the two contigs of a key
ContigsOf(k) == {rstrip(k[1]), rstrip(k[2])}

\* a bed line on contig id with the given strand
LineOn(id, strand) ==
    [accn |-> NameA, seqid |-> id, start |-> 1, end |-> 1, strand |-> strand]

\* the key of the pair just read, had its two lines come in the other order
SwappedKey ==
    KeyOf(LineOn(last.ids[2], last.raw[2]), LineOn(last.ids[1], last.raw[1]))

\* a mate pair and the same pair in the other mate direction get one key
SameKeyBothDirections == last.key # NoKey => last.key = SwappedKey

\* the vote table has at most one bucket for every unordered pair of contigs
OneBucketPerContigPair ==
    \A j \in DOMAIN contigGraph, k \in DOMAIN contigGraph :
        ContigsOf(j) = ContigsOf(k) => j = k

\* C2: a mate pair observed as (A,B) and the pair differing only in mate
\* direction, observed as (B,A), are recorded under the same key of the vote
\* table, and the table holds at most one bucket per unordered contig pair.
C2_OneCanonicalBucket == SameKeyBothDirections /\ OneBucketPerContigPair

\* C3: every key (seq_a, seq_b) of the vote table is in canonical form:
\* seq_a is lexicographically smaller than seq_b, the ids being those of the
\* records after canonicalization.
C3_KeysCanonical ==
    \A k \in DOMAIN contigGraph : StrLess(k[1], k[2])

\* the hang sums of the votes of a bucket
HangsOf(mates) == [i \in 1..Len(mates) |-> mates[i][2]]

\* C4: no bucket of the vote table holds two votes with the same hang_sum; a
\* pair whose hang_sum is already among the votes of its bucket is discarded,
\* so that two pairs with one hang_sum and one key store exactly one vote.
C4_NoDuplicateHangs ==
    /\ \A k \in DOMAIN contigGraph :
        \A i \in 1..Len(contigGraph[k]), j \in 1..Len(contigGraph[k]) :
            contigGraph[k][i][2] = contigGraph[k][j][2] => i = j
    /\ last.outcome \in {"recorded", "redundant"} =>
        /\ last.key \in DOMAIN contigGraph
        /\ Cardinality({i \in 1..Len(contigGraph[last.key]) :
                contigGraph[last.key][i][2] = last.hangs}) = 1

\* a second pair with the key and the hang_sum of a stored vote was read and
\* discarded: the bucket holds the one vote
C4_Witness ==
    /\ last.outcome = "redundant"
    /\ HangsOf(contigGraph[last.key]) = <<last.hangs>>

\* the cutoff in force: the configured one when it is not zero, else p2
CutoffInForce == IF cutoff = 0 THEN p2 ELSE cutoff

\* C5: a pair with hang_sum above maxcutoff is never recorded, a pair with
\* hang_sum equal to maxcutoff is not rejected by the cutoff filter, and every
\* stored vote has hang_sum <= maxcutoff, maxcutoff being the configured
\* cutoff when it is not zero and p2 otherwise.
C5_CutoffFilter ==
    /\ \A k \in DOMAIN contigGraph :
        \A i \in 1..Len(contigGraph[k]) : contigGraph[k][i][2] <= CutoffInForce
    /\ last.outcome = "cutoff" => last.hangs > CutoffInForce
    /\ (Normalized /\ last.hangs > CutoffInForce) => last.outcome = "cutoff"
    /\ (Normalized /\ last.hangs = CutoffInForce) => last.outcome # "cutoff"

\* a pair at the cutoff is stored and the next pair, above it, is rejected
C5_Witness ==
    /\ last.outcome = "cutoff"
    /\ last.hangs = CutoffInForce + 1
    /\ \E k \in DOMAIN contigGraph :
        \E i \in 1..Len(contigGraph[k]) : contigGraph[k][i][2] = CutoffInForce

----------------------------------------------------------------------------
(* Properties of gap estimation and edge emission *)

\* the buckets the second loop has gone through
Visited == { SortedKey(contigGraph, i) : i \in 1..ei }

\* the bucket's vote count meets the links threshold
Enough(k) == Len(contigGraph[k]) >= links

\* the visited buckets that meet the threshold
Eligible == { k \in Visited : Enough(k) }

\* the keys of the records printed so far
Reported == { out[i].pair : i \in 1..Len(out) }

\* C11: edge emission produces a LinkageEdge (a graph edge and an output
\* record) for a bucket if and only if the bucket's vote count is >= the links
\* threshold; a bucket with fewer votes produces no edge and no output, and
\* is not an error.
C11_EmissionThreshold ==
    /\ pc # "aborted"
    /\ pc = "loop" => out = <<>> /\ DOMAIN g = {}
    /\ pc = "done" => Visited = DOMAIN contigGraph
    /\ pc \in {"emit", "done"} =>
        /\ Reported = Eligible
        /\ Len(out) = Cardinality(Eligible)
        /\ DOMAIN g = { ContigsOf(k) : k \in Eligible }
        /\ \A i \in 1..Len(out) : out[i].mates = contigGraph[out[i].pair]

\* emission is over: of two buckets one met the threshold and was reported,
\* the other did not and was passed over
C11_Witness ==
    /\ pc = "done"
    /\ Cardinality(DOMAIN contigGraph) = 2
    /\ Len(out) = 1
    /\ Cardinality(DOMAIN g) = 1
    /\ \E k \in DOMAIN contigGraph : ~Enough(k)

\* the gap interval [max(p1 - hang_sum, 0), p2 - hang_sum] of a vote
VoteInterval(vote) ==
    <<IF p1 - vote[2] > 0 THEN p1 - vote[2] ELSE 0, p2 - vote[2]>>

\* the gap sizes that the intervals of all the votes of a bucket admit
Admitted(mates) ==
    { x \in 0..p2 :
        \A i \in 1..Len(mates) :
            VoteInterval(mates[i])[1] <= x /\ x <= VoteInterval(mates[i])[2] }

\* the record reports the intersection of the intervals of its votes
ReportsIntersection(rec) ==
    IF Admitted(rec.mates) = {}
    THEN rec.gap = "None"
    ELSE /\ rec.gap # "None"
         /\ Admitted(rec.mates) = rec.gap[1]..rec.gap[2]

EndsInMarker(id) == id # <<>> /\ id[Len(id)] = "-"

\* '-' when exactly one of the two ids of the key ends in the marker
Symbol(k) == IF EndsInMarker(k[1]) # EndsInMarker(k[2]) THEN "-" ELSE "+"

\* the id without its trailing markers
StripAll(id) ==
    LET n == CHOOSE n \in 0..Len(id) :
                /\ \A m \in (n + 1)..Len(id) : id[m] = "-"
                /\ n > 0 => id[n] # "-"
    IN  SubSeq(id, 1, n)

\* the nodes of the graph edge of a key
EdgeOf(k) == {StripAll(k[1]), StripAll(k[2])}

\* the latest record printed for the two contigs of a graph edge
LatestRecord(e) ==
    out[CHOOSE i \in 1..Len(out) :
            /\ EdgeOf(out[i].pair) = e
            /\ \A j \in (i + 1)..Len(out) : EdgeOf(out[j].pair) # e]

\* C13: for every emitted edge the orientation symbol is '-' exactly when
\* one, and only one, of the two bucket ids ends in the reverse marker '-',
\* and '+' when neither or both do; the ids on the emitted graph edge have
\* all trailing '-' markers stripped.
C13_OrientationSymbol ==
    /\ \A i \in 1..Len(out) :
        /\ out[i].orientation = Symbol(out[i].pair)
        /\ EdgeOf(out[i].pair) \in DOMAIN g
    /\ \A e \in DOMAIN g :
        /\ \A id \in e : ~EndsInMarker(id)
        /\ \E i \in 1..Len(out) : EdgeOf(out[i].pair) = e
        /\ g[e] = Symbol(LatestRecord(e).pair)

\* two buckets of the contigs A and B were emitted: one id marked gives '-',
\* both ids marked give '+', and the edge between A and B is left with the
\* symbol of the later bucket
C13_Witness ==
    /\ pc = "done"
    /\ Len(out) = 2
    /\ out[1].pair = <<<<"A">>, <<"B", "-">>>>
    /\ out[1].orientation = "-"
    /\ out[2].pair = <<<<"A", "-">>, <<"B", "-">>>>
    /\ out[2].orientation = "+"
    /\ g = [e \in {{<<"A">>, <<"B">>}} |-> "+"]

----------------------------------------------------------------------------
(* Properties of the contact binner *)

RECURSIVE Flatten(_)
Flatten(ts) == IF ts = <<>> THEN <<>> ELSE Head(ts) \o Flatten(Tail(ts))

\* the contigs in processing order, and how many of them are binned
InputOrder == Flatten(tours)
Processed == Binned(SubSeq(tours, 1, ti - 1)) + xi

\* the least number of bins of the resolution that cover the length
Ceiling(length) ==
    CHOOSE n \in 0..(length \div Resolution + 1) :
        /\ n * Resolution >= length
        /\ (n - 1) * Resolution < length

\* the end of the k-th processed contig, 0 before the first
RECURSIVE Offset(_)
Offset(k) ==
    IF k = 0 THEN 0 ELSE Offset(k - 1) + Ceiling(mapping[InputOrder[k]])

\* the k-th processed contig was not processed again since
Latest(k) == \A m \in (k + 1)..Processed : InputOrder[m] # InputOrder[k]

BinOf(k) == bins[ContigIds[InputOrder[k]]]

\* the position in processing order of the first contig of group gi
FirstOf(gi) == Binned(SubSeq(tours, 1, gi - 1)) + 1

IntervalsAssigned ==
    /\ start = Offset(Processed)
    /\ DOMAIN bins = { ContigIds[InputOrder[k]] : k \in 1..Processed }
    /\ \A k \in 1..Processed :
          Latest(k) => BinOf(k) = <<Offset(k - 1), Offset(k)>>

Contiguous ==
    \A k \in 1..(Processed - 1) :
        Latest(k) /\ Latest(k + 1) => BinOf(k)[2] = BinOf(k + 1)[1]

NonOverlapping ==
    \A c, d \in DOMAIN bins :
        c # d => bins[c][2] <= bins[d][1] \/ bins[d][2] <= bins[c][1]

ThreeBins ==
    \A k \in 1..Processed :
        mapping[InputOrder[k]] = 250000 => BinOf(k)[2] - BinOf(k)[1] = 3

BreaksAreOffsets ==
    /\ Len(breaks) = ti - 1
    /\ \A gi \in 1..Len(breaks) :
          breaks[gi] = Offset(Binned(SubSeq(tours, 1, gi)))

GroupStartsAtBreak ==
    \A gi \in 1..Len(breaks) :
        /\ gi + 1 <= Len(tours)
        /\ tours[gi + 1] # <<>>
        /\ FirstOf(gi + 1) <= Processed
        /\ Latest(FirstOf(gi + 1))
        => BinOf(FirstOf(gi + 1))[1] = breaks[gi]

TotalIsLastOffset ==
    result # NoResult =>
        /\ result = <<start, bins, breaks>>
        /\ result[1] = Offset(Len(InputOrder))
        /\ breaks # <<>> => result[1] = breaks[Len(breaks)]

\* C10: make_bins gives each contig, in input order, the half-open interval
\* from the end of the previously processed contig (0 for the first, carried
\* across groups) to that plus ceil(length / 100000); the intervals are
\* contiguous and do not overlap, a contig of length 250000 gets 3 bins,
\* breaks[g] is the offset after group g, the first bin of group g+1 is
\* breaks[g], and totalbins is the last offset.
C10_BinIntervals ==
    /\ IntervalsAssigned
    /\ Contiguous
    /\ NonOverlapping
    /\ ThreeBins
    /\ BreaksAreOffsets
    /\ GroupStartsAtBreak
    /\ TotalIsLastOffset

\* make_bins has returned from two groups of different contigs, one of them
\* of length 250000 and the other not a multiple of the resolution
C10_Witness ==
    /\ result # NoResult
    /\ tours = << <<"x">>, <<"y">> >>
    /\ mapping["x"] = 250000
    /\ mapping["y"] = 100001
    /\ bins["0"] = <<0, 3>>
    /\ bins["1"] = <<3, 5>>
    /\ breaks = <<3, 5>>
    /\ result[1] = 5

----------------------------------------------------------------------------
(* Properties of the tour fitness *)

Evaluated == fitness # NoFitness

\* cumulative_size[k]: the sizes of tour[0..k] added up (k counted from 1)
RECURSIVE CumulativeSize(_)
CumulativeSize(k) ==
    IF k = 0 THEN 0 ELSE CumulativeSize(k - 1) + tour_sizes[tour[k]]

\* the sum over a set of position pairs <<i, j>> of
\* M[tour[i]][tour[j]] / (cumulative_size[j] - cumulative_size[i])
RECURSIVE PairSum(_)
PairSum(P) ==
    IF P = {} THEN Zero
    ELSE LET p == CHOOSE q \in P : TRUE IN
         FracAdd(Frac(tour_M[<<tour[p[1]], tour[p[2]]>>],
                      CumulativeSize(p[2]) - CumulativeSize(p[1])),
                 PairSum(P \ {p}))

PositionPairs == {p \in (1..Len(tour)) \X (1..Len(tour)) : p[1] < p[2]}

\* C7: for every tour, positive sizes and contact matrix, score_evaluate
\* returns the sum over the position pairs i < j of
\* M[tour[i]][tour[j]] / (cumulative_size[j] - cumulative_size[i]).
C7_FitnessIsPairSum == Evaluated => fitness = PairSum(PositionPairs)

\* a tour of three contigs of unequal sizes, out of order, has a positive score
C7_Witness ==
    /\ Evaluated
    /\ tour = <<2, 0, 1>>
    /\ tour_sizes[0] # tour_sizes[1]
    /\ tour_M[<<2, 0>>] = 1 /\ tour_M[<<0, 2>>] = 0
    /\ fitness # Zero

\* the identity tour on the example of three contigs has been scored
ExampleScored ==
    /\ Evaluated
    /\ tour = <<0, 1, 2>>
    /\ tour_sizes = ExampleSizes
    /\ tour_M = ExampleM

\* C8 as stated: on the example the fitness is 10/100 + 5/250 + 20/150.
C8_StatedValue ==
    ExampleScored =>
        fitness = FracAdd(Frac(10, 100), FracAdd(Frac(5, 250), Frac(20, 150)))

\* C8, amended: on the example (sizes 100, 200, 150; contacts 10, 5, 20;
\* identity tour) the fitness is 10/200 + 5/350 + 20/150 = 83/420, about
\* 0.1976: the separations are 200, 350 and 150.
C8_ExampleValue ==
    ExampleScored =>
        /\ fitness = FracAdd(Frac(10, 200), FracAdd(Frac(5, 350), Frac(20, 150)))
        /\ fitness = <<83, 420>>

C8_Witness == ExampleScored /\ fitness = <<83, 420>>

\* list(reversed(tour))
Reversed(t) == [k \in 1..Len(t) |-> t[Len(t) + 1 - k]]

Symmetric(tm) == \A p \in DOMAIN tm : tm[p] = tm[<<p[2], p[1]>>]

EqualSizes(ts) == \A i \in DOMAIN ts, j \in DOMAIN ts : ts[i] = ts[j]

\* C9 as stated: with a symmetric contact matrix the reversed tour has the
\* score of the tour.
C9_ReversalInvariant ==
    (Evaluated /\ Symmetric(tour_M)) =>
        fitness = score_evaluate(Reversed(tour), tour_sizes, tour_M)

\* C9, amended: with a symmetric contact matrix and contigs of one size the
\* reversed tour has the score of the tour (as exact sums: the same terms in
\* another order).
C9_ReversalEqualSizes ==
    (Evaluated /\ Symmetric(tour_M) /\ EqualSizes(tour_sizes)) =>
        fitness = score_evaluate(Reversed(tour), tour_sizes, tour_M)

\* a tour that is not its own reverse, scored on a symmetric matrix with one
\* contact and contigs of one size
C9_Witness ==
    /\ Evaluated
    /\ tour = <<1, 0, 2>>
    /\ Symmetric(tour_M) /\ EqualSizes(tour_sizes)
    /\ tour_M[<<0, 1>>] = 1 /\ tour_M[<<0, 2>>] = 0 /\ tour_M[<<1, 2>>] = 0
    /\ fitness # Zero

----------------------------------------------------------------------------
(* Properties of the two-contig scenario *)

\* the pairs of the file under the cutoff (the three good pairs)
GoodOfFile == { i \in 1..Len(bedfile) : HangSum(bedfile[i]) <= CutoffInForce }

\* the pair of the file above the cutoff (the fourth pair)
BadOfFile == { i \in 1..Len(bedfile) : HangSum(bedfile[i]) > CutoffInForce }

\* the good pairs read with strands "++"
PlusPlus == { i \in GoodOfFile : bedfile[i][1].strand = "+" }

\* every vote of the table, as <<key, pair id, hang_sum>>
AllVotes ==
    UNION { { <<k, contigGraph[k][i][1], contigGraph[k][i][2]>> :
                i \in 1..Len(contigGraph[k]) } : k \in DOMAIN contigGraph }

\* the fourth pair left no vote
FourthDropped ==
    \A v \in AllVotes : \A i \in BadOfFile : v[2] # rs(bedfile[i][1])

\* one LinkageEdge, between A and B
OneEdgeAB ==
    /\ Len(out) = 1
    /\ ContigsOf(out[1].pair) = ScenarioContigs
    /\ DOMAIN g = {ScenarioContigs}

----------------------------------------------------------------------------
(* Specifications *)

NextBed == ReadPair \/ EndOfFile \/ Emit \/ Finish

NextScenario == ReadFile \/ EndOfFile \/ Emit \/ Finish

Init == InitBed

Next == NextBed

Spec == Init /\ [][Next]_vars

\* the tour fitness evaluator on its own
SpecScore == InitScore /\ [][NextScore]_vars

\* the contact binner on its own
SpecBins == InitBins /\ [][NextBins]_vars

\* the two-contig scenario
SpecScenario == InitScenario /\ [][NextScenario]_vars

====
